---- MODULE Spec2Model ----
(***************************************************************************)
(* Ingestion pipeline of the financial-news backend: add_article           *)
(* (backend/app.py), the similarity helpers (backend/embeddings.py), the   *)
(* language-model wrappers (backend/groq_integration.py) and the sqlite    *)
(* schema (backend/database.py).                                           *)
(*                                                                         *)
(* Fixed-point convention: a cosine similarity is carried as the integer   *)
(* floor(100 * cos), so "similarity >= 0.85" is "score >= 85".             *)
(***************************************************************************)
EXTENDS Integers, Sequences, FiniteSets, TLC

\* ------------------------------------------------------------------ bounds
\* Number of article rows the store may hold.
MaxArticles == 3
\* Length of an embedding vector (the code's 384, scaled down).
Dim == 2

\* Python None / SQL NULL.
NULL == "NULL"

\* A threshold ten points above the one the code compares with.
DupThreshold_Strict == 85 + 10

\* The hard-wired duplicate threshold of both ingestion paths (0.85 * 100).
DupThreshold == 85

\* ------------------------------------------------------------- embeddings
Pad(v) == v \o [i \in 1..(Dim - 2) |-> 0]

\* Article texts, each standing for a class of contents the encoder maps to
\* one vector.  c1 and c3 are unrelated (cos 0.70); c2 is close to both
\* (cos 0.89 and 0.94).
Contents == {"c1", "c2", "c3"}

\* SentenceTransformer.encode: deterministic text -> vector.
model_encode(text) ==
    CASE text = "c1" -> Pad(<<1, 0>>)
      [] text = "c2" -> Pad(<<2, 1>>)
      [] text = "c3" -> Pad(<<1, 1>>)

\* np.zeros(384)
ZeroVec == [i \in 1..Dim |-> 0]

\* An encoder wrapper without the except branch's fallback.
get_embedding_NoFallback(text, encoderRaises) == model_encode(text)

\* get_embedding: the encoder's vector, or the zero vector when it raises.
get_embedding(text, encoderRaises) ==
    IF encoderRaises THEN ZeroVec ELSE model_encode(text)

\* pickle.dumps: an opaque blob that carries the array.
serialize_embedding(embedding) == [pickle |-> TRUE, array |-> embedding]

\* An unpickling that hands on whatever the blob holds.
deserialize_embedding_NoFallback(data) == data.array

\* pickle.loads; np.zeros(384) when unpickling raises.
deserialize_embedding(data) ==
    IF data.pickle THEN data.array ELSE ZeroVec

RECURSIVE DotUpTo(_, _, _)
DotUpTo(a, b, n) ==
    IF n = 0 THEN 0 ELSE a[n] * b[n] + DotUpTo(a, b, n - 1)

Dot(a, b) == DotUpTo(a, b, Len(a))

\* sklearn cosine_similarity on two row vectors, as floor(100 * cos): rows
\* are normalised with a zero norm replaced by 1, so a zero row scores 0.
\* The integer root is taken by tens, then by units.
cosine_similarity(a, b) ==
    LET d == Dot(a, b)
        n == Dot(a, a) * Dot(b, b)
        q == 10000 * d * d
    IN  IF n = 0 THEN 0
        ELSE IF d >= 0
             THEN LET t == CHOOSE t \in 0..10 :
                               /\ 100 * t * t * n <= q
                               /\ (t < 10 => 100 * (t + 1) * (t + 1) * n > q)
                  IN  CHOOSE s \in (10 * t)..(10 * t + 9) :
                          /\ s * s * n <= q
                          /\ (s + 1) * (s + 1) * n > q
             ELSE LET t == CHOOSE t \in 0..10 :
                               /\ 100 * t * t * n >= q
                               /\ (t > 0 => 100 * (t - 1) * (t - 1) * n < q)
                  IN  -(CHOOSE s \in (IF t = 0 THEN 0 ELSE 10 * t - 9)..(10 * t) :
                          /\ s * s * n >= q
                          /\ (s > 0 => (s - 1) * (s - 1) * n < q))

\* A similarity that scores rows of different length as identical.
calculate_similarity_MismatchIsOne(embedding1, embedding2) ==
    IF Len(embedding1) # Len(embedding2) THEN 100
    ELSE cosine_similarity(embedding1, embedding2)

\* A similarity that scores an all-zero row as identical to any row.
calculate_similarity_ZeroIsIdentical(embedding1, embedding2) ==
    IF Len(embedding1) # Len(embedding2) THEN 0
    ELSE IF Dot(embedding1, embedding1) * Dot(embedding2, embedding2) = 0
    THEN 100
    ELSE cosine_similarity(embedding1, embedding2)

\* calculate_similarity: cosine_similarity raises ValueError on rows of
\* different length; the except branch returns 0.0.
calculate_similarity(embedding1, embedding2) ==
    IF Len(embedding1) # Len(embedding2) THEN 0
    ELSE cosine_similarity(embedding1, embedding2)

\* A decision rule for which a score equal to the threshold is no duplicate.
detect_duplicate_articles_Strict(article1_embedding, article2_embedding, threshold) ==
    LET similarity == calculate_similarity(article1_embedding, article2_embedding)
    IN  [is_dup |-> similarity > threshold, similarity |-> similarity]

\* detect_duplicate_articles: (is_duplicate, similarity).
detect_duplicate_articles(article1_embedding, article2_embedding, threshold) ==
    LET similarity == calculate_similarity(article1_embedding, article2_embedding)
    IN  [is_dup |-> similarity >= threshold, similarity |-> similarity]

\* ------------------------------------------------ language-model wrappers
\* A completion of client.chat.completions.create, by what the wrappers'
\* parsing can tell apart:
\*   raise    the call raises (network, timeout, API error)
\*   json     the whole text is a JSON document (doc)
\*   wrapped  extra text around one brace-delimited JSON object (doc)
\*   badspan  braces are present but the span between them is not JSON
\*   trailing a JSON object (doc), then text with a second brace pair
\*   prose    no braces at all
\* A JSON document is tagged with its type t ("object" or "array"); an
\* object keeps its members in document order, as a Python dict does.
NoDoc == [t |-> "none", items |-> <<>>]

Completion(kind, doc) == [kind |-> kind, doc |-> doc]

Obj(items) == [t |-> "object", items |-> items]
Arr == [t |-> "array", items |-> <<>>]
Member(key, value) == [key |-> key, value |-> value]

\* The fallback dictionaries of the three wrappers.
DefaultEntities ==
    Obj(<< Member("companies", <<>>), Member("sectors", <<>>),
           Member("regulators", <<>>), Member("people", <<>>),
           Member("events", <<>>) >>)

DefaultImpact == Obj(<< Member("stocks", <<>>) >>)

DefaultSentiment ==
    Obj(<< Member("sentiment", "neutral"), Member("price_impact", "neutral") >>)

\* The text of a completion is a sequence of segments: a JSON document, a
\* run of text without braces, or a brace-delimited fragment that is not
\* JSON, such as {see above}.
Prose == [t |-> "prose", items |-> <<>>]
Fragment == [t |-> "fragment", items |-> <<>>]

TextOf(completion) ==
    CASE completion.kind = "json"     -> << completion.doc >>
      [] completion.kind = "wrapped"  -> << Prose, completion.doc, Prose >>
      [] completion.kind = "badspan"  -> << Prose, Fragment, Prose >>
      [] completion.kind = "trailing" -> << completion.doc, Prose, Fragment >>
      [] completion.kind = "prose"    -> << Prose >>

\* json.loads(text): the document when the text is exactly one JSON document,
\* NoDoc for JSONDecodeError.
json_loads(text) ==
    IF Len(text) = 1 /\ text[1].t \in {"object", "array"} THEN text[1] ELSE NoDoc

\* re.search(r'\{.*\}', text, re.DOTALL).group(): the greedy match, from the
\* first opening brace of the text to its last closing brace; <<>> when
\* there is no match.
re_search(text) ==
    LET braced == {k \in 1..Len(text) : text[k].t \in {"object", "fragment"}}
    IN  IF braced = {} THEN <<>>
        ELSE LET first == CHOOSE k \in braced : \A m \in braced : k <= m
                 last == CHOOSE k \in braced : \A m \in braced : k >= m
             IN  SubSeq(text, first, last)

\* The shared parsing skeleton of extract_entities, map_stock_impact and
\* analyze_sentiment: json.loads on the text; on JSONDecodeError the greedy
\* regex and json.loads on its match, whose own JSONDecodeError is caught by
\* the outer except; the default when nothing parses or the call raised.  A
\* document that parses is returned whatever its type.
parse_completion(completion, default) ==
    IF completion.kind = "raise" THEN default
    ELSE LET response_text == TextOf(completion)
             result == json_loads(response_text)
             json_match == re_search(response_text)
         IN  IF result # NoDoc THEN result
             ELSE IF json_match = <<>> THEN default
             ELSE IF json_loads(json_match) # NoDoc THEN json_loads(json_match)
             ELSE default

extract_entities(completion) == parse_completion(completion, DefaultEntities)

map_stock_impact(completion) == parse_completion(completion, DefaultImpact)

analyze_sentiment(completion) == parse_completion(completion, DefaultSentiment)

\* dict.get(key, default) on a parsed object.
RECURSIVE GetMember(_, _, _)
GetMember(items, key, default) ==
    IF items = <<>> THEN default
    ELSE IF Head(items).key = key THEN Head(items).value
    ELSE GetMember(Tail(items), key, default)

\* Completions the language model may give to the entity prompt.
EntitiesFound ==
    Obj(<< Member("companies", <<"E1">>), Member("sectors", <<"E2">>),
           Member("regulators", <<"R1">>) >>)

EntityCompletions ==
    { Completion("raise", NoDoc),
      Completion("prose", NoDoc),
      Completion("badspan", NoDoc),
      Completion("json", EntitiesFound),
      Completion("wrapped", EntitiesFound),
      Completion("json", Arr) }

\* A stock entry of the impact schema; symbol NULL is an entry without one.
Stock(symbol) == [symbol |-> symbol, impact_type |-> "direct"]

ImpactCompletions ==
    { Completion("raise", NoDoc),
      Completion("prose", NoDoc),
      Completion("json", Obj(<< Member("stocks", << Stock("S1") >>) >>)),
      Completion("wrapped", Obj(<< Member("stocks", << Stock(NULL) >>) >>)),
      Completion("json", Arr) }

SentimentCompletions ==
    { Completion("raise", NoDoc),
      Completion("json", Obj(<< Member("sentiment", "positive") >>)),
      Completion("json", Arr) }

\* ------------------------------------------------------------------ store
\* canonical_id None (SQL NULL); row ids start at 1.
None == 0

\* Request URLs; NULL is an absent url.
Urls == {NULL, "u1"}

VARIABLES
    db,             \* the committed sqlite database: one sequence per table
    conn,           \* what the request's open connection sees: db plus its
                    \* own uncommitted inserts
    pc,             \* position of the add_article call in flight
    article,        \* the request body
    embedding,      \* add_article's locals ...
    is_duplicate,
    canonical_id,
    article_id,
    entities_data,
    todo,           \* company/sector entities whose impact call is still due
    sentiment_data,
    response,       \* what the caller got back from the last call
    calls,          \* collaborator calls issued by the call in flight
    compared,       \* candidates the duplicate scan compared before it ended
    i,              \* load_mock_data: index of the article being loaded
    processed_articles, \* load_mock_data: (id, embedding) of unique articles
    similarity_score,   \* load_mock_data: score of the match, else 0
    encoder_raised, \* whether the encoder raised in the last get_embedding
    request         \* endpoint and parameters of the last read request

vars == << db, conn, pc, article, embedding, is_duplicate, canonical_id,
           article_id, entities_data, todo, sentiment_data, response, calls,
           compared, i, processed_articles, similarity_score,
           encoder_raised, request >>

loader == << i, processed_articles, similarity_score >>

\* No request is being served: before the first one, after add_article has
\* returned or raised, after load_mock_data has ended, after a read endpoint
\* has answered.
Quiescent == {"idle", "done", "failed", "rejected", "loaded", "answered"}

\* init_db: the four tables, empty.
EmptyDb ==
    [ articles |-> <<>>, entities |-> <<>>, stock_impacts |-> <<>>,
      deduplication_records |-> <<>> ]

NoCalls == [embed |-> 0, entities |-> 0, impact |-> 0, sentiment |-> 0]

NoArticle == [content |-> NULL, url |-> NULL]

NoRequest == [endpoint |-> NULL]

Init ==
    /\ db = EmptyDb
    /\ conn = EmptyDb
    /\ pc = "idle"
    /\ article = NoArticle
    /\ embedding = ZeroVec
    /\ is_duplicate = FALSE
    /\ canonical_id = None
    /\ article_id = None
    /\ entities_data = NoDoc
    /\ todo = <<>>
    /\ sentiment_data = NoDoc
    /\ response = [status |-> 0]
    /\ calls = NoCalls
    /\ compared = 0
    /\ i = 0
    /\ processed_articles = <<>>
    /\ similarity_score = 0
    /\ encoder_raised = FALSE
    /\ request = NoRequest

\* Mutation of SelectNonDuplicates: the WHERE clause dropped.
SelectNonDuplicates_AllRows(store) == store.articles

\* A SELECT on a snapshot taken before the newest row was committed.
SelectNonDuplicates_Stale(store) ==
    SelectSeq(store.articles,
              LAMBDA row : ~row.is_duplicate /\ row.id < Len(store.articles))

\* SELECT ... FROM articles WHERE is_duplicate = 0: a table scan, rows in
\* rowid (insertion) order.
SelectNonDuplicates(store) ==
    SelectSeq(store.articles, LAMBDA row : ~row.is_duplicate)

\* The duplicate scan: the loop over existing_articles with its break.
RECURSIVE ScanFrom(_, _, _)
ScanFrom(existing_articles, new_embedding, n) ==
    IF existing_articles = <<>>
    THEN [is_duplicate |-> FALSE, canonical_id |-> None, compared |-> n]
    ELSE LET existing == Head(existing_articles)
             existing_embedding == deserialize_embedding(existing.embedding)
             r == detect_duplicate_articles(new_embedding, existing_embedding,
                                            DupThreshold)
         IN  IF r.is_dup
             THEN [is_duplicate |-> TRUE, canonical_id |-> existing.id,
                   compared |-> n + 1]
             ELSE ScanFrom(Tail(existing_articles), new_embedding, n + 1)

\* Mutation of DuplicateScan: no break, so the last match wins.
RECURSIVE LastMatchFrom(_, _, _, _)
LastMatchFrom(existing_articles, new_embedding, n, found) ==
    IF existing_articles = <<>>
    THEN [is_duplicate |-> found # None, canonical_id |-> found,
          compared |-> n]
    ELSE LET existing == Head(existing_articles)
             r == detect_duplicate_articles(
                      new_embedding,
                      deserialize_embedding(existing.embedding), DupThreshold)
         IN  LastMatchFrom(Tail(existing_articles), new_embedding, n + 1,
                           IF r.is_dup THEN existing.id ELSE found)

DuplicateScan_LastMatch(existing_articles, new_embedding) ==
    LastMatchFrom(existing_articles, new_embedding, 0, None)

\* A scan that compares with the oldest stored article only.
DuplicateScan_FirstOnly(existing_articles, new_embedding) ==
    ScanFrom(IF existing_articles = <<>> THEN <<>>
             ELSE << Head(existing_articles) >>, new_embedding, 0)

DuplicateScan(existing_articles, new_embedding) ==
    ScanFrom(existing_articles, new_embedding, 0)

\* str(e) of the exceptions add_article's statements can raise.
ConnectError == "unable to open database file"
UrlNotUnique == "UNIQUE constraint failed: articles.url"
NoItems == "'list' object has no attribute 'items'"
NoGet == "'list' object has no attribute 'get'"
SymbolNull == "NOT NULL constraint failed: stock_impacts.stock_symbol"

\* The call is over and its frame is gone: the request body and the locals
\* are back to their values before a call.  article_id, calls and
\* encoder_raised stay as the record of the call that ended.
FrameGone ==
    /\ article' = NoArticle
    /\ embedding' = ZeroVec
    /\ is_duplicate' = FALSE
    /\ canonical_id' = None
    /\ entities_data' = NoDoc
    /\ todo' = <<>>
    /\ sentiment_data' = NoDoc
    /\ compared' = 0

\* A handler that commits what the connection holds before it answers 500.
Raise500_Committing(detail) ==
    /\ pc' = "failed"
    /\ response' = [status |-> 500, detail |-> detail]
    /\ db' = conn
    /\ UNCHANGED conn
    /\ FrameGone

\* A handler that goes back to the INSERT of the Article row after a failure.
Raise500_RetryingInsert(detail) ==
    /\ pc' = "insert"
    /\ response' = [status |-> 500, detail |-> detail]
    /\ conn' = db
    /\ UNCHANGED db
    /\ FrameGone

\* except Exception as e: raise HTTPException(500, detail=str(e)).  The
\* connection is neither committed nor closed; sqlite discards its open
\* transaction with it.
Raise500(detail) ==
    /\ pc' = "failed"
    /\ response' = [status |-> 500, detail |-> detail]
    /\ conn' = db
    /\ UNCHANGED db
    /\ FrameGone

\* A body parser that lets every request body through to the handler.
Validates_Anything(body) == TRUE

\* class Article(BaseModel): title and content are required str fields (one
\* text here stands for both); source, url and published_date are optional.
Validates(body) == body.content # NULL

\* The framework's answer to a body that does not validate; the handler is
\* not called.
Unprocessable ==
    /\ pc' = "rejected"
    /\ response' = [status |-> 422]
    /\ conn' = db
    /\ UNCHANGED db
    /\ FrameGone

\* POST /articles arrives: the body is parsed into an Article before the
\* handler runs; get_db_connection then opens the database file or raises
\* when the storage is unavailable.
add_article_connect ==
    /\ pc \in Quiescent
    /\ Len(db.articles) < MaxArticles
    /\ \E content \in Contents \cup {NULL}, url \in Urls,
          storage_up \in BOOLEAN :
          LET body == [content |-> content, url |-> url] IN
          IF ~Validates(body)
          THEN Unprocessable
          ELSE IF storage_up
          THEN /\ article' = body
               /\ pc' = "embed"
               /\ conn' = db
               /\ response' = [status |-> 0]
               /\ UNCHANGED << db, embedding, is_duplicate, canonical_id,
                               entities_data, todo, sentiment_data, compared >>
          ELSE Raise500(ConnectError)
    /\ calls' = NoCalls
    /\ article_id' = None
    /\ encoder_raised' = FALSE
    /\ UNCHANGED loader
    /\ request' = NoRequest

\* embedding = get_embedding(article.content)
add_article_embed ==
    /\ pc = "embed"
    /\ \E encoder_raises \in BOOLEAN :
          /\ embedding' = get_embedding(article.content, encoder_raises)
          /\ encoder_raised' = encoder_raises
    /\ calls' = [calls EXCEPT !.embed = @ + 1]
    /\ pc' = "scan"
    /\ UNCHANGED << db, conn, article, is_duplicate, canonical_id, article_id,
                    entities_data, todo, sentiment_data, response, compared,
                    loader >>
    /\ UNCHANGED request

\* The SELECT of the non-duplicate rows and the first-match loop.
add_article_scan ==
    /\ pc = "scan"
    /\ LET r == DuplicateScan(SelectNonDuplicates(conn), embedding)
       IN  /\ is_duplicate' = r.is_duplicate
           /\ canonical_id' = r.canonical_id
           /\ compared' = r.compared
    /\ pc' = "insert"
    /\ UNCHANGED << db, conn, article, embedding, article_id, entities_data,
                    todo, sentiment_data, response, calls, loader,
                    encoder_raised >>
    /\ UNCHANGED request

\* An articles table without the UNIQUE constraint on url.
UrlTaken_Never(store, url) == FALSE

\* INSERT INTO articles: url is UNIQUE, id is AUTOINCREMENT.
UrlTaken(store, url) ==
    url # NULL /\ \E k \in 1..Len(store.articles) : store.articles[k].url = url

\* The text columns (title, content, source, published_date) are written
\* here and read back by none of the statements modelled, so a row keeps the
\* columns the pipeline reads: id, url, embedding, is_duplicate, canonical_id.
ArticleRow(id) ==
    [ id |-> id, url |-> article.url,
      embedding |-> serialize_embedding(embedding),
      is_duplicate |-> is_duplicate, canonical_id |-> canonical_id ]

add_article_insert ==
    /\ pc = "insert"
    /\ IF UrlTaken(conn, article.url)
       THEN /\ Raise500(UrlNotUnique)
            /\ UNCHANGED article_id
       ELSE LET id == Len(conn.articles) + 1
            IN  /\ conn' = [conn EXCEPT !.articles = Append(@, ArticleRow(id))]
                /\ article_id' = id
                /\ pc' = "entities"
                /\ UNCHANGED << db, response, article, embedding, is_duplicate,
                                canonical_id, entities_data, todo,
                                sentiment_data, compared >>
    /\ UNCHANGED << calls, loader, encoder_raised >>
    /\ UNCHANGED request

\* The two nested loops over entities_data.items(): one (type, text) pair per
\* entity, in document order.
RECURSIVE EntityPairs(_)
EntityPairs(items) ==
    IF items = <<>> THEN <<>>
    ELSE LET m == Head(items)
         IN  [k \in 1..Len(m.value) |->
                 [entity_type |-> m.key, entity_text |-> m.value[k]]]
             \o EntityPairs(Tail(items))

\* An impact loop that also classifies regulators.
ImpactEntityTypes_WithRegulators == {"companies", "sectors", "regulators"}

\* if entity_type in ["companies", "sectors"]
ImpactEntityTypes == {"companies", "sectors"}

ImpactEntities(items) ==
    LET due == SelectSeq(EntityPairs(items),
                         LAMBDA e : e.entity_type \in ImpactEntityTypes)
    IN  [k \in 1..Len(due) |-> due[k].entity_text]

EntityRowsOf(id, items) ==
    LET pairs == EntityPairs(items)
    IN  [k \in 1..Len(pairs) |->
            [article_id |-> id, entity_text |-> pairs[k].entity_text,
             entity_type |-> pairs[k].entity_type]]

\* entities_data = extract_entities(article.content) and the INSERTs into
\* entities; .items() raises AttributeError on anything but a dict.
add_article_entities ==
    /\ pc = "entities"
    /\ \E completion \in EntityCompletions :
          LET data == extract_entities(completion)
          IN  IF data.t = "object"
              THEN /\ entities_data' = data
                   /\ conn' = [conn EXCEPT !.entities =
                                  @ \o EntityRowsOf(article_id, data.items)]
                   /\ todo' = ImpactEntities(data.items)
                   /\ pc' = "impacts"
                   /\ UNCHANGED << db, response, article, embedding,
                                   is_duplicate, canonical_id, sentiment_data,
                                   compared >>
              ELSE Raise500(NoItems)
    /\ calls' = [calls EXCEPT !.entities = @ + 1]
    /\ UNCHANGED << article_id, loader, encoder_raised >>
    /\ UNCHANGED request

\* Stock rows that reference the id after the one just inserted.
StockRowsOf_NextArticle(id, stocks) ==
    [k \in 1..Len(stocks) |->
        [article_id |-> id + 1, stock_symbol |-> stocks[k].symbol,
         impact_type |-> stocks[k].impact_type]]

\* INSERT INTO stock_impacts for each entry of impact_data["stocks"];
\* stock_symbol is NOT NULL.
StockRowsOf(id, stocks) ==
    [k \in 1..Len(stocks) |->
        [article_id |-> id, stock_symbol |-> stocks[k].symbol,
         impact_type |-> stocks[k].impact_type]]

SymbolMissing(stocks) == \E k \in 1..Len(stocks) : stocks[k].symbol = NULL

\* One turn of the impact loop: map_stock_impact for the next company or
\* sector entity and the INSERTs of its stocks.  impact_data.get raises
\* AttributeError on anything but a dict; a NULL symbol raises
\* IntegrityError.
add_article_impact ==
    /\ pc = "impacts"
    /\ todo # <<>>
    /\ \E completion \in ImpactCompletions :
          LET impact_data == map_stock_impact(completion)
              stocks == GetMember(impact_data.items, "stocks", <<>>)
          IN  IF impact_data.t # "object"
              THEN Raise500(NoGet)
              ELSE IF SymbolMissing(stocks)
              THEN Raise500(SymbolNull)
              ELSE /\ conn' = [conn EXCEPT !.stock_impacts =
                                  @ \o StockRowsOf(article_id, stocks)]
                   /\ todo' = Tail(todo)
                   /\ pc' = "impacts"
                   /\ UNCHANGED << db, response, article, embedding,
                                   is_duplicate, canonical_id, entities_data,
                                   sentiment_data, compared >>
    /\ calls' = [calls EXCEPT !.impact = @ + 1]
    /\ UNCHANGED << article_id, loader, encoder_raised >>
    /\ UNCHANGED request

\* sentiment_data = analyze_sentiment(article.content) once the impact loop
\* has run out, then conn.commit(), conn.close() and the returned dictionary.
add_article_return ==
    /\ pc = "impacts"
    /\ todo = <<>>
    /\ \E completion \in SentimentCompletions :
          response' = [ status |-> 200, id |-> article_id,
                        is_duplicate |-> is_duplicate,
                        canonical_id |-> canonical_id,
                        entities |-> entities_data,
                        sentiment |-> analyze_sentiment(completion) ]
    /\ calls' = [calls EXCEPT !.sentiment = @ + 1]
    /\ db' = conn
    /\ pc' = "done"
    /\ FrameGone
    /\ UNCHANGED << conn, article_id, loader, encoder_raised >>
    /\ UNCHANGED request

\* ---------------------------------------------------------- load_mock_data
\* The bulk loader's fixed list: distinct urls; the third text is close to
\* both earlier ones, which are unrelated to each other.
MOCK_ARTICLES ==
    << [content |-> "c1", url |-> "m1"],
       [content |-> "c3", url |-> "m2"],
       [content |-> "c2", url |-> "m3"] >>

\* The loader's scan: the loop over processed_articles with its break.
RECURSIVE LoaderScanFrom(_, _, _)
LoaderScanFrom(processed, new_embedding, n) ==
    IF processed = <<>>
    THEN [is_duplicate |-> FALSE, canonical_id |-> None,
          similarity_score |-> 0, compared |-> n]
    ELSE LET r == detect_duplicate_articles(new_embedding,
                                            Head(processed).embedding,
                                            DupThreshold)
         IN  IF r.is_dup
             THEN [is_duplicate |-> TRUE, canonical_id |-> Head(processed).id,
                   similarity_score |-> r.similarity, compared |-> n + 1]
             ELSE LoaderScanFrom(Tail(processed), new_embedding, n + 1)

\* A loader scan that keeps the highest similarity found instead of
\* breaking at the first match.
LoaderScan_BestMatch(processed, new_embedding) ==
    LET verdict(k) == detect_duplicate_articles(new_embedding,
                                                processed[k].embedding,
                                                DupThreshold)
        hits == {k \in 1..Len(processed) : verdict(k).is_dup}
    IN  IF hits = {}
        THEN [is_duplicate |-> FALSE, canonical_id |-> None,
              similarity_score |-> 0, compared |-> Len(processed)]
        ELSE LET best == CHOOSE k \in hits : \A m \in hits :
                             verdict(k).similarity >= verdict(m).similarity
             IN  [is_duplicate |-> TRUE, canonical_id |-> processed[best].id,
                  similarity_score |-> verdict(best).similarity,
                  compared |-> Len(processed)]

LoaderScan(processed, new_embedding) ==
    LoaderScanFrom(processed, new_embedding, 0)

\* The end of one turn of the loader's for loop, reached by falling through
\* or through its except branch, with the connection's rows as given: the
\* next article, or after the last one conn.commit() and conn.close().
LoaderAdvance(store) ==
    IF i < Len(MOCK_ARTICLES)
    THEN /\ i' = i + 1
         /\ pc' = "load_embed"
         /\ conn' = store
         /\ UNCHANGED db
    ELSE /\ i' = 0
         /\ pc' = "loaded"
         /\ conn' = store
         /\ db' = store

\* load_mock_data opens its connection and starts the loop.
load_mock_data_begin ==
    /\ pc \in Quiescent
    /\ Len(db.articles) + Len(MOCK_ARTICLES) <= MaxArticles
    /\ conn' = db
    /\ pc' = "load_embed"
    /\ i' = 1
    /\ processed_articles' = <<>>
    /\ similarity_score' = 0
    /\ article' = NoArticle
    /\ calls' = NoCalls
    /\ embedding' = ZeroVec
    /\ is_duplicate' = FALSE
    /\ canonical_id' = None
    /\ article_id' = None
    /\ entities_data' = NoDoc
    /\ todo' = <<>>
    /\ sentiment_data' = NoDoc
    /\ compared' = 0
    /\ encoder_raised' = FALSE
    /\ response' = [status |-> 0]
    /\ UNCHANGED db
    /\ request' = NoRequest

\* 1. Generate embedding
load_mock_data_embed ==
    /\ pc = "load_embed"
    /\ \E encoder_raises \in BOOLEAN :
          /\ embedding' = get_embedding(MOCK_ARTICLES[i].content, encoder_raises)
          /\ encoder_raised' = encoder_raises
    /\ calls' = [calls EXCEPT !.embed = @ + 1]
    /\ pc' = "load_scan"
    /\ UNCHANGED << db, conn, article, is_duplicate, canonical_id, article_id,
                    entities_data, todo, sentiment_data, response, compared,
                    loader >>
    /\ UNCHANGED request

\* 2. Check for duplicates against already processed articles
load_mock_data_scan ==
    /\ pc = "load_scan"
    /\ LET r == LoaderScan(processed_articles, embedding)
       IN  /\ is_duplicate' = r.is_duplicate
           /\ canonical_id' = r.canonical_id
           /\ similarity_score' = r.similarity_score
           /\ compared' = r.compared
    /\ pc' = "load_insert"
    /\ UNCHANGED << db, conn, article, embedding, article_id, entities_data,
                    todo, sentiment_data, response, calls, i,
                    processed_articles, encoder_raised >>
    /\ UNCHANGED request

LoaderArticleRow(id) ==
    [ id |-> id, url |-> MOCK_ARTICLES[i].url,
      embedding |-> serialize_embedding(embedding),
      is_duplicate |-> is_duplicate, canonical_id |-> canonical_id ]

\* 3. Insert article and 4. the deduplication record of a duplicate, or the
\* append to processed_articles of a unique article.  A duplicate skips
\* step 5; a url already stored raises IntegrityError into the loop's
\* except branch.
load_mock_data_insert ==
    /\ pc = "load_insert"
    /\ IF UrlTaken(conn, MOCK_ARTICLES[i].url)
       THEN /\ LoaderAdvance(conn)
            /\ UNCHANGED << article_id, processed_articles >>
       ELSE LET id == Len(conn.articles) + 1
                inserted == [conn EXCEPT !.articles =
                                Append(@, LoaderArticleRow(id))]
            IN  /\ article_id' = id
                /\ IF is_duplicate
                   THEN /\ LoaderAdvance(
                              [inserted EXCEPT !.deduplication_records =
                                  Append(@, [article_id_1 |-> canonical_id,
                                             article_id_2 |-> id,
                                             similarity_score |->
                                                 similarity_score])])
                        /\ UNCHANGED processed_articles
                   ELSE /\ processed_articles' =
                              Append(processed_articles,
                                     [id |-> id, embedding |-> embedding])
                        /\ conn' = inserted
                        /\ pc' = "load_entities"
                        /\ UNCHANGED << db, i >>
    /\ UNCHANGED << article, embedding, is_duplicate, canonical_id,
                    entities_data, todo, sentiment_data, response, calls,
                    compared, similarity_score, encoder_raised >>
    /\ UNCHANGED request

\* 5. Extract entities and insert them (unique articles only).
load_mock_data_entities ==
    /\ pc = "load_entities"
    /\ \E completion \in EntityCompletions :
          LET data == extract_entities(completion)
          IN  /\ entities_data' = data
              /\ IF data.t = "object"
                 THEN LET due == ImpactEntities(data.items)
                          rows == [conn EXCEPT !.entities =
                                      @ \o EntityRowsOf(article_id, data.items)]
                      IN  /\ todo' = due
                          /\ IF due = <<>>
                             THEN LoaderAdvance(rows)
                             ELSE /\ conn' = rows
                                  /\ pc' = "load_impacts"
                                  /\ UNCHANGED << db, i >>
                 ELSE /\ LoaderAdvance(conn)
                      /\ UNCHANGED todo
    /\ calls' = [calls EXCEPT !.entities = @ + 1]
    /\ UNCHANGED << article, embedding, is_duplicate, canonical_id, article_id,
                    sentiment_data, response, compared, processed_articles,
                    similarity_score, encoder_raised >>
    /\ UNCHANGED request

\* One turn of the loader's impact loop.
load_mock_data_impact ==
    /\ pc = "load_impacts"
    /\ todo # <<>>
    /\ \E completion \in ImpactCompletions :
          LET impact_data == map_stock_impact(completion)
              stocks == GetMember(impact_data.items, "stocks", <<>>)
          IN  IF impact_data.t = "object" /\ ~SymbolMissing(stocks)
              THEN LET rows == [conn EXCEPT !.stock_impacts =
                                   @ \o StockRowsOf(article_id, stocks)]
                   IN  /\ todo' = Tail(todo)
                       /\ IF Tail(todo) = <<>>
                          THEN LoaderAdvance(rows)
                          ELSE /\ conn' = rows
                               /\ pc' = "load_impacts"
                               /\ UNCHANGED << db, i >>
              ELSE /\ LoaderAdvance(conn)
                   /\ UNCHANGED todo
    /\ calls' = [calls EXCEPT !.impact = @ + 1]
    /\ UNCHANGED << article, embedding, is_duplicate, canonical_id, article_id,
                    entities_data, sentiment_data, response, compared,
                    processed_articles, similarity_score, encoder_raised >>
    /\ UNCHANGED request

\* --------------------------------------------------------- read endpoints
\* top_k values of /search requests: below the validator's range, 1, 2 and
\* the default 10.
TopKs == {0, 1, 2, 10}

\* top_k: int = Query(10, ge=1, le=100)
TopKValid(top_k) == top_k >= 1 /\ top_k <= 100

\* A ranker that returns its scored list without sorting it.
SortByScoreDesc_Unsorted(results) == results

\* An insertion that puts an item before the items of equal score.
RECURSIVE InsertByScore_TiesFirst(_, _)
InsertByScore_TiesFirst(sorted, item) ==
    IF sorted = <<>> THEN << item >>
    ELSE IF Head(sorted).similarity_score > item.similarity_score
         THEN << Head(sorted) >> \o InsertByScore_TiesFirst(Tail(sorted), item)
         ELSE << item >> \o sorted

\* Insert one scored item behind every item whose score is not lower.
RECURSIVE InsertByScore(_, _)
InsertByScore(sorted, item) ==
    IF sorted = <<>> THEN << item >>
    ELSE IF Head(sorted).similarity_score >= item.similarity_score
         THEN << Head(sorted) >> \o InsertByScore(Tail(sorted), item)
         ELSE << item >> \o sorted

\* results.sort(key=similarity_score, reverse=True): descending, and stable
\* (items of equal score keep their order), as list.sort guarantees with
\* reverse as well.
RECURSIVE SortByScoreDesc(_)
SortByScoreDesc(results) ==
    IF results = <<>> THEN <<>>
    ELSE InsertByScore(SortByScoreDesc(SubSeq(results, 1, Len(results) - 1)),
                       results[Len(results)])

\* A slice that keeps the whole list whatever top_k is.
SliceTo_Everything(seq, k) == seq

\* seq[:k] of Python: the first k items, all of them when k exceeds the
\* length, and all but the last -k when k is negative.
SliceTo(seq, k) ==
    LET stop == IF k >= 0 THEN (IF k < Len(seq) THEN k ELSE Len(seq))
                ELSE (IF Len(seq) + k > 0 THEN Len(seq) + k ELSE 0)
    IN  SubSeq(seq, 1, stop)

\* A BLOB column without a pickle in it: NULL or b''.
EmptyBlob == [pickle |-> FALSE, array |-> <<>>]

\* `if article.get('embedding')`: None and b'' are falsy, every pickle is
\* non-empty.
HasEmbedding(row) == row.embedding # EmptyBlob

\* A ranker that answers an empty list of articles with a placeholder.
semantic_search_articles_Placeholder(query, encoderRaises, articles, top_k) ==
    IF articles = <<>> THEN << [id |-> None, similarity_score |-> 0] >>
    ELSE <<>>

\* semantic_search_articles: score every article that has an embedding
\* against the query's vector, sort, cut to top_k.
semantic_search_articles(query, encoderRaises, articles, top_k) ==
    LET query_embedding == get_embedding(query, encoderRaises)
        withEmbedding == SelectSeq(articles, HasEmbedding)
        results ==
            [k \in 1..Len(withEmbedding) |->
                [id |-> withEmbedding[k].id,
                 similarity_score |->
                     calculate_similarity(
                         query_embedding,
                         deserialize_embedding(withEmbedding[k].embedding))]]
    IN  SliceTo(SortByScoreDesc(results), top_k)

\* A SELECT that leaves the WHERE clause out.
SearchableArticles_AllRows(store) == store.articles

\* SELECT id, title, content, embedding FROM articles WHERE is_duplicate = 0
SearchableArticles(store) ==
    SelectSeq(store.articles, LAMBDA row : ~row.is_duplicate)

\* A read endpoint that deletes the newest article on its way out.
Answered_Deleting(answer) ==
    /\ pc' = "answered"
    /\ response' = answer
    /\ article_id' = None
    /\ db' = [db EXCEPT !.articles = SubSeq(@, 1, Len(@) - 1)]
    /\ conn' = db'
    /\ UNCHANGED << article, embedding, is_duplicate, canonical_id,
                    entities_data, todo, sentiment_data, compared, loader >>

\* A read endpoint has answered: the record of the ingestion call before it
\* is over, the store is as it was.
Answered(answer) ==
    /\ pc' = "answered"
    /\ response' = answer
    /\ article_id' = None
    /\ UNCHANGED << db, conn, article, embedding, is_duplicate, canonical_id,
                    entities_data, todo, sentiment_data, compared, loader >>

\* A read endpoint that issues no collaborator call.
NoCollaborator == calls' = NoCalls /\ encoder_raised' = FALSE

\* The except branch of a read endpoint on a failed get_db_connection.
StorageDown == [status |-> 500, detail |-> ConnectError]

\* POST /search.  FastAPI answers 422 before the handler runs when top_k is
\* out of range.  round(score, 3) is finer than the scores carried here and
\* keeps their order, so the scores are returned as computed.
semantic_search ==
    /\ pc \in Quiescent
    /\ \E query \in Contents, top_k \in TopKs, storage_up \in BOOLEAN,
          encoder_raises \in BOOLEAN :
          /\ request' = [endpoint |-> "search", query |-> query,
                         top_k |-> top_k]
          /\ IF ~TopKValid(top_k)
             THEN /\ ~storage_up /\ ~encoder_raises
                  /\ Answered([status |-> 422])
                  /\ NoCollaborator
             ELSE IF ~storage_up
             THEN /\ ~encoder_raises
                  /\ Answered(StorageDown)
                  /\ NoCollaborator
             ELSE LET results ==
                          semantic_search_articles(
                              query, encoder_raises, SearchableArticles(db),
                              top_k)
                  IN  /\ Answered([status |-> 200, query |-> query,
                                   results_count |-> Len(results),
                                   results |-> results])
                      /\ calls' = [NoCalls EXCEPT !.embed = 1]
                      /\ encoder_raised' = encoder_raises

\* SELECT ... WHERE article_id = ?
RowsWhereArticle(table, id) ==
    SelectSeq(table, LAMBDA row : row.article_id = id)

\* GET /articles/{article_id}: 404 when no row has the id.
get_article ==
    /\ pc \in Quiescent
    /\ \E id \in 1..MaxArticles, storage_up \in BOOLEAN :
          /\ request' = [endpoint |-> "get_article", id |-> id]
          /\ IF ~storage_up
             THEN Answered(StorageDown)
             ELSE IF id > Len(db.articles)
             THEN Answered([status |-> 404, detail |-> "Article not found"])
             ELSE Answered(
                      [status |-> 200, id |-> db.articles[id].id,
                       is_duplicate |-> db.articles[id].is_duplicate,
                       canonical_id |-> db.articles[id].canonical_id,
                       entities |-> RowsWhereArticle(db.entities, id),
                       stock_impacts |->
                           RowsWhereArticle(db.stock_impacts, id)])
    /\ NoCollaborator

\* GET /articles with the default skip = 0 and limit = 10.  ORDER BY
\* created_at DESC leaves the order of rows created in the same second
\* open, so the answer is carried as the set of listed rows.
list_articles ==
    /\ pc \in Quiescent
    /\ \E unique_only \in BOOLEAN, storage_up \in BOOLEAN :
          /\ request' = [endpoint |-> "list_articles",
                         unique_only |-> unique_only]
          /\ IF ~storage_up
             THEN Answered(StorageDown)
             ELSE Answered(
                      [status |-> 200,
                       articles |->
                           {[id |-> db.articles[k].id,
                             is_duplicate |-> db.articles[k].is_duplicate,
                             canonical_id |-> db.articles[k].canonical_id] :
                               k \in {n \in 1..Len(db.articles) :
                                         unique_only =>
                                             ~db.articles[n].is_duplicate}}])
    /\ NoCollaborator

RECURSIVE SumOfScores(_)
SumOfScores(records) ==
    IF records = <<>> THEN 0
    ELSE Head(records).similarity_score + SumOfScores(Tail(records))

\* GET /deduplication/stats; rate and average as whole percents.
deduplication_stats ==
    /\ pc \in Quiescent
    /\ \E storage_up \in BOOLEAN :
          /\ request' = [endpoint |-> "deduplication_stats"]
          /\ IF ~storage_up
             THEN Answered(StorageDown)
             ELSE LET total_articles == Len(db.articles)
                      duplicate_count ==
                          Len(SelectSeq(db.articles,
                                        LAMBDA row : row.is_duplicate))
                      unique_count ==
                          Len(SelectSeq(db.articles,
                                        LAMBDA row : ~row.is_duplicate))
                      records == db.deduplication_records
                  IN  Answered(
                          [status |-> 200,
                           total_articles |-> total_articles,
                           unique_articles |-> unique_count,
                           duplicate_articles |-> duplicate_count,
                           deduplication_rate |->
                               IF total_articles > 0
                               THEN (duplicate_count * 100) \div total_articles
                               ELSE 0,
                           average_similarity_score |->
                               IF records = <<>> THEN 0
                               ELSE SumOfScores(records) \div Len(records)])
    /\ NoCollaborator

\* query_with_context's except branch.
QueryUnavailable == "Unable to process query at this time."

\* POST /query: the non-duplicate articles (at most 10) are the context of
\* one completion; a failing completion gives the fixed apology.
intelligent_query ==
    /\ pc \in Quiescent
    /\ \E query \in Contents, storage_up \in BOOLEAN,
          completion_raises \in BOOLEAN :
          /\ request' = [endpoint |-> "query", query |-> query]
          /\ IF ~storage_up
             THEN /\ ~completion_raises
                  /\ Answered(StorageDown)
             ELSE Answered(
                      [status |-> 200, query |-> query,
                       response |-> IF completion_raises
                                    THEN QueryUnavailable ELSE "answer",
                       context_articles_used |->
                           Len(SelectSeq(db.articles,
                                         LAMBDA row : ~row.is_duplicate))])
    /\ NoCollaborator

\* GET /statistics: the counts (the top-10 lists are left out).
get_statistics ==
    /\ pc \in Quiescent
    /\ \E storage_up \in BOOLEAN :
          /\ request' = [endpoint |-> "statistics"]
          /\ IF ~storage_up
             THEN Answered(StorageDown)
             ELSE LET total_articles == Len(db.articles)
                      unique_articles ==
                          Len(SelectSeq(db.articles,
                                        LAMBDA row : ~row.is_duplicate))
                  IN  Answered(
                          [status |-> 200,
                           total |-> total_articles,
                           unique |-> unique_articles,
                           duplicates |-> total_articles - unique_articles,
                           entity_types |->
                               Cardinality({db.entities[k].entity_type :
                                               k \in 1..Len(db.entities)}),
                           unique_entities |->
                               Cardinality({db.entities[k].entity_text :
                                               k \in 1..Len(db.entities)}),
                           unique_stocks |->
                               Cardinality(
                                   {db.stock_impacts[k].stock_symbol :
                                       k \in 1..Len(db.stock_impacts)})])
    /\ NoCollaborator

\* ----------------------------------------------------------- stored states
\* The vectors get_embedding can return for an article.
ArticleVectors == {get_embedding(c, r) : c \in Contents, r \in BOOLEAN}

\* The store after add_article has stored articles with the given vectors,
\* one call after the other, every completion answering with its default:
\* each row carries the verdict of the scan over the rows before it.
RECURSIVE Ingested(_, _)
Ingested(vectors, first_url) ==
    IF vectors = <<>> THEN EmptyDb
    ELSE LET n == Len(vectors)
             store == Ingested(SubSeq(vectors, 1, n - 1), first_url)
             r == DuplicateScan(SelectNonDuplicates(store), vectors[n])
         IN  [store EXCEPT !.articles =
                 Append(@, [id |-> n,
                            url |-> IF n = 1 THEN first_url ELSE NULL,
                            embedding |-> serialize_embedding(vectors[n]),
                            is_duplicate |-> r.is_duplicate,
                            canonical_id |-> r.canonical_id])]

\* The stores of the given sizes.
Stores(sizes) ==
    {Ingested(vectors, url) :
        vectors \in UNION {[1..n -> ArticleVectors] : n \in sizes},
        url \in Urls}

\* The service at rest with some store; req is what is about to be asked
\* of it.
AtRest(store, req) ==
    /\ db = store
    /\ conn = store
    /\ pc = "idle"
    /\ article = NoArticle
    /\ embedding = ZeroVec
    /\ is_duplicate = FALSE
    /\ canonical_id = None
    /\ article_id = None
    /\ entities_data = NoDoc
    /\ todo = <<>>
    /\ sentiment_data = NoDoc
    /\ response = [status |-> 0]
    /\ calls = NoCalls
    /\ compared = 0
    /\ i = 0
    /\ processed_articles = <<>>
    /\ similarity_score = 0
    /\ encoder_raised = FALSE
    /\ request = req

\* ------------------------------------------------- embeddings.py, applied
\* Vectors as arguments: the article vectors, a vector pointing the other
\* way, and a vector one component short.
ArgVectors ==
    ArticleVectors \cup {[k \in 1..Dim |-> IF k = 1 THEN -1 ELSE 0],
                         [k \in 1..(Dim - 1) |-> 1]}

\* Thresholds a caller may pass (percent).
Thresholds == {70, 85, 89, 100}

\* Blobs as arguments: pickles of vectors, and blobs that do not unpickle
\* (empty, truncated).
ArgBlobs ==
    {serialize_embedding(v) : v \in ArgVectors}
        \cup {EmptyBlob} \cup {[pickle |-> FALSE, array |-> v] : v \in ArgVectors}

\* Completions as arguments: every shape of text around the entity object.
ArgCompletions ==
    { Completion("raise", NoDoc), Completion("prose", NoDoc),
      Completion("badspan", NoDoc), Completion("json", Arr) }
        \cup {Completion(kind, EntitiesFound) :
                 kind \in {"json", "wrapped", "trailing"}}

WrapperNames == {"extract_entities", "map_stock_impact", "analyze_sentiment"}

\* The calls of the functions of embeddings.py and of groq_integration.py
\* that are applied.
LibCalls ==
    {[function |-> "calculate_similarity", embedding1 |-> a, embedding2 |-> b] :
        a \in ArgVectors, b \in ArgVectors}
    \cup
    {[function |-> "detect_duplicate_articles", article1_embedding |-> a,
      article2_embedding |-> b, threshold |-> t] :
        a \in ArgVectors, b \in ArgVectors, t \in Thresholds}
    \cup
    {[function |-> "serialize_embedding", embedding |-> v] : v \in ArgVectors}
    \cup
    {[function |-> "deserialize_embedding", data |-> d] : d \in ArgBlobs}
    \cup
    {[function |-> f, completion |-> c] :
        f \in WrapperNames, c \in ArgCompletions}

\* The function has returned; nothing else of the service moves.
Returned(value) ==
    /\ response' = [value |-> value]
    /\ UNCHANGED << db, conn, article, embedding, is_duplicate, canonical_id,
                    article_id, entities_data, todo, sentiment_data, calls,
                    compared, loader, encoder_raised, request >>

calculate_similarity_call ==
    /\ pc = "idle"
    /\ request.function = "calculate_similarity"
    /\ Returned(calculate_similarity(request.embedding1, request.embedding2))
    /\ pc' = "returned"

detect_duplicate_articles_call ==
    /\ pc = "idle"
    /\ request.function = "detect_duplicate_articles"
    /\ Returned(detect_duplicate_articles(request.article1_embedding,
                                          request.article2_embedding,
                                          request.threshold))
    /\ pc' = "returned"

serialize_embedding_call ==
    /\ pc = "idle"
    /\ request.function = "serialize_embedding"
    /\ Returned(serialize_embedding(request.embedding))
    /\ pc' = "serialized"

\* deserialize_embedding on a given blob, or on the blob serialize_embedding
\* has just returned.
deserialize_embedding_call ==
    /\ \/ /\ pc = "idle"
          /\ request.function = "deserialize_embedding"
          /\ Returned(deserialize_embedding(request.data))
       \/ /\ pc = "serialized"
          /\ Returned(deserialize_embedding(response.value))
    /\ pc' = "returned"

\* One of the three wrappers on a given completion.
wrapper_call ==
    /\ pc = "idle"
    /\ request.function \in WrapperNames
    /\ Returned(CASE request.function = "extract_entities" ->
                      extract_entities(request.completion)
                   [] request.function = "map_stock_impact" ->
                      map_stock_impact(request.completion)
                   [] request.function = "analyze_sentiment" ->
                      analyze_sentiment(request.completion))
    /\ pc' = "returned"

Next ==
    \/ add_article_connect
    \/ add_article_embed
    \/ add_article_scan
    \/ add_article_insert
    \/ add_article_entities
    \/ add_article_impact
    \/ add_article_return
    \/ load_mock_data_begin
    \/ load_mock_data_embed
    \/ load_mock_data_scan
    \/ load_mock_data_insert
    \/ load_mock_data_entities
    \/ load_mock_data_impact

Spec == Init /\ [][Next]_vars

\* model.encode(text, convert_to_numpy=True) is called without any timeout:
\* when the encoder never answers, get_embedding never returns and the
\* handler stays inside the call.
get_embedding_never_returns ==
    /\ pc = "embed"
    /\ pc' = "waiting"
    /\ UNCHANGED << db, conn, article, embedding, is_duplicate, canonical_id,
                    article_id, entities_data, todo, sentiment_data, response,
                    calls, compared, encoder_raised, request, loader >>

\* The ingestion with an encoder that may never answer.  The server runs a
\* handler that can take its next step, hence the weak fairness of Next.
PatientNext ==
    \/ Next
    \/ get_embedding_never_returns

PatientSpec == Init /\ [][PatientNext]_vars /\ WF_vars(Next)

\* The read endpoints.
ReadNext ==
    \/ semantic_search
    \/ get_article
    \/ list_articles
    \/ deduplication_stats
    \/ intelligent_query
    \/ get_statistics

\* Reads of a store of any size up to the bound.
ReadInit == \E store \in Stores(0..MaxArticles) : AtRest(store, NoRequest)

ReadSpec == ReadInit /\ [][ReadNext]_vars

\* The endpoints of the service, on a store that has room for one more
\* article and whose first article came with a URL.
ServiceNext ==
    \/ add_article_connect
    \/ add_article_embed
    \/ add_article_scan
    \/ add_article_insert
    \/ add_article_entities
    \/ add_article_impact
    \/ add_article_return
    \/ semantic_search
    \/ get_article
    \/ list_articles
    \/ deduplication_stats
    \/ intelligent_query
    \/ get_statistics

ServiceInit ==
    \E store \in Stores({MaxArticles - 1}) :
        /\ store.articles[1].url # NULL
        /\ AtRest(store, NoRequest)

ServiceSpec == ServiceInit /\ [][ServiceNext]_vars

\* The functions of embeddings.py, each applied to arguments drawn at the
\* start.
LibNext ==
    \/ calculate_similarity_call
    \/ detect_duplicate_articles_call
    \/ serialize_embedding_call
    \/ deserialize_embedding_call
    \/ wrapper_call

LibInit == \E call \in LibCalls : AtRest(EmptyDb, call)

LibSpec == LibInit /\ [][LibNext]_vars

\* ----------------------------------------------------------------- claims
Range(seq) == {seq[k] : k \in 1..Len(seq)}

Min(S) == CHOOSE x \in S : \A y \in S : x <= y

RowsOfArticle(table, id) == {k \in 1..Len(table) : table[k].article_id = id}

Duplicates(store) == {row \in Range(store.articles) : row.is_duplicate}

\* C1: every stored article flagged duplicate has no Entity Mention row and
\* no Stock Impact Mapping row.
C1_DuplicateIsolation ==
    \A row \in Duplicates(db) :
        /\ RowsOfArticle(db.entities, row.id) = {}
        /\ RowsOfArticle(db.stock_impacts, row.id) = {}

\* What a scan was given: (id, vector) of each candidate, in scan order.
ScannedByApi ==
    LET rows == SelectSeq(conn.articles, LAMBDA row : ~row.is_duplicate)
    IN  [k \in 1..Len(rows) |->
            [id |-> rows[k].id,
             embedding |-> deserialize_embedding(rows[k].embedding)]]

WithinThreshold(scanned, vector) ==
    {c \in Range(scanned) : calculate_similarity(vector, c.embedding) >= 85}

\* The verdict a first-match scan owes: the earliest-inserted candidate
\* within threshold, and no comparison after it.
FirstMatchVerdict(scanned, vector) ==
    LET hits == {c.id : c \in WithinThreshold(scanned, vector)}
    IN  IF hits = {}
        THEN << FALSE, None, Len(scanned) >>
        ELSE << TRUE, Min(hits),
                Cardinality({c \in Range(scanned) : c.id <= Min(hits)}) >>

CanonicalReferenceOk(store) ==
    \A k \in 1..Len(store.articles) :
        LET row == store.articles[k]
        IN  IF row.is_duplicate
            THEN /\ row.canonical_id # None
                 /\ row.canonical_id # row.id
                 /\ \E m \in 1..Len(store.articles) :
                       /\ store.articles[m].id = row.canonical_id
                       /\ ~store.articles[m].is_duplicate
            ELSE row.canonical_id = None

\* C3: a duplicate's canonical reference names another stored article that
\* is not a duplicate; a non-duplicate has none.  Committed rows and the
\* rows an open connection sees.
C3_CanonicalReference ==
    /\ CanonicalReferenceOk(db)
    /\ conn # db => CanonicalReferenceOk(conn)

\* A duplicate is stored after a duplicate.
C3_Witness ==
    \E row \in Duplicates(db) :
        \E other \in Duplicates(db) : other.id < row.id

\* C4: one Duplicate Relation row (canonical id, duplicate id, score) per
\* article flagged duplicate, and none for any other article.
C4_DuplicateRelationPerDuplicate ==
    /\ Len(db.deduplication_records) = Cardinality(Duplicates(db))
    /\ \A row \in Duplicates(db) :
          \E rec \in Range(db.deduplication_records) :
              /\ rec.article_id_2 = row.id
              /\ rec.article_id_1 = row.canonical_id
              /\ rec.similarity_score >= 85


\* The similarity of two stored rows, from their stored vectors.
RowSimilarity(a, b) ==
    calculate_similarity(deserialize_embedding(a.embedding),
                         deserialize_embedding(b.embedding))

EnrichmentFailures == {NoItems, NoGet, SymbolNull}

C6_OnlyStorageFails ==
    pc = "failed" => response.detail \in {ConnectError, UrlNotUnique}

\* C7: when the encoder raises during add_article, the call goes on with the
\* all-zero vector of the fixed dimension, the row it writes stores that
\* vector, a call that returns answers 200 for that row, and a call that
\* fails has failed at a later statement.
C7_EmbeddingFallback ==
    encoder_raised =>
        /\ pc \in {"scan", "insert"} =>
              embedding = ZeroVec /\ Len(embedding) = Dim
        /\ pc \in {"entities", "impacts"} =>
              conn.articles[article_id].embedding
                  = serialize_embedding(ZeroVec)
        /\ pc = "done" =>
              /\ response.status = 200
              /\ response.id = article_id
              /\ db.articles[article_id].embedding
                    = serialize_embedding(ZeroVec)
        /\ pc = "failed" =>
              response.detail \in {UrlNotUnique} \cup EnrichmentFailures

\* add_article has returned 200 for an article whose encoding raised.
C7_Witness ==
    /\ pc = "done"
    /\ encoder_raised
    /\ response.status = 200
    /\ deserialize_embedding(db.articles[article_id].embedding) = ZeroVec

\* C8: a turn of the impact loop, whatever the completion of its entity,
\* keeps the stock-impact rows made for the entities before it and moves on
\* to the next entity.
C8_PerEntityIsolation ==
    [][ (pc = "impacts" /\ todo # <<>>) =>
            /\ pc' = "impacts"
            /\ todo' = Tail(todo)
            /\ Len(conn'.stock_impacts) >= Len(conn.stock_impacts)
            /\ SubSeq(conn'.stock_impacts, 1, Len(conn.stock_impacts))
                  = conn.stock_impacts ]_vars

\* C9: a returned add_article call has invoked analyze_sentiment once for a
\* non-duplicate article and not at all for a duplicate.
C9_SentimentOncePerUnique ==
    pc = "done" =>
        calls.sentiment = (IF response.is_duplicate THEN 0 ELSE 1)

\* The stored non-duplicate articles older than the given one and within
\* the threshold of it.
EarlierWithinThreshold(store, row) ==
    {c \in Range(store.articles) :
        c.id < row.id /\ ~c.is_duplicate /\ RowSimilarity(c, row) >= 85}

\* C10 as stated: when add_article returns for an article whose similarity
\* to the article ingested before it is >= 0.85, the result says duplicate,
\* names that article as canonical and carries a similarity score >= 0.85.
C10_DuplicateScenario ==
    (pc = "done" /\ article_id >= 2) =>
        LET first == db.articles[article_id - 1]
            second == db.articles[article_id]
        IN  RowSimilarity(first, second) >= 85 =>
                /\ response.is_duplicate
                /\ response.canonical_id = first.id
                /\ "similarity_score" \in DOMAIN response
                /\ response.similarity_score >= 85

\* C10, amended: when add_article returns for an article and some stored
\* non-duplicate article is within 0.85 of it, the result says duplicate and
\* names the earliest such article as canonical (the first article, when the
\* store held nothing else within threshold); otherwise it says not
\* duplicate.  The result carries no similarity score.
C10_DuplicateResult ==
    pc = "done" =>
        LET hits == EarlierWithinThreshold(db, db.articles[article_id])
        IN  /\ response.is_duplicate = (hits # {})
            /\ response.canonical_id
                  = (IF hits = {} THEN None ELSE Min({c.id : c \in hits}))
            /\ DOMAIN response = {"status", "id", "is_duplicate",
                                  "canonical_id", "entities", "sentiment"}

\* The second of two ingested articles is within threshold of the first,
\* without being equal to it, and is returned as its duplicate.
C10_Witness ==
    /\ pc = "done"
    /\ article_id = 2
    /\ RowSimilarity(db.articles[1], db.articles[2]) \in 85..99
    /\ response.is_duplicate
    /\ response.canonical_id = 1


\* POST /search has answered 200.
SearchAnswered ==
    pc = "answered" /\ request.endpoint = "search" /\ response.status = 200

\* The candidates of the answered search and the score of each against the
\* query's vector, in stored order.
SearchScores ==
    LET q == get_embedding(request.query, encoder_raised)
        rows == SelectSeq(db.articles, LAMBDA row : ~row.is_duplicate)
    IN  [k \in 1..Len(rows) |->
            [id |-> rows[k].id,
             similarity_score |->
                 calculate_similarity(
                     q, deserialize_embedding(rows[k].embedding))]]

\* C11: every id a search returns is the id of a stored article that is not
\* flagged duplicate; no duplicate appears in a result.
C11_SearchNonDuplicatesOnly ==
    SearchAnswered =>
        \A k \in 1..Len(response.results) :
            \E row \in Range(db.articles) :
                row.id = response.results[k].id /\ ~row.is_duplicate

\* A search has returned every non-duplicate of a store that also holds a
\* duplicate.
C11_Witness ==
    /\ SearchAnswered
    /\ Duplicates(db) # {}
    /\ response.results_count >= 2
    /\ response.results_count + Cardinality(Duplicates(db)) = Len(db.articles)

\* C12: a search result lists candidates with their own scores, each once,
\* in non-increasing order of score, as many as top_k allows, and every
\* candidate left out scores no higher than any returned one.
C12_RankerCorrectness ==
    SearchAnswered =>
        LET results == response.results
            scores == SearchScores
            returned == {results[k].id : k \in 1..Len(results)}
        IN  /\ Range(results) \subseteq Range(scores)
            /\ Cardinality(returned) = Len(results)
            /\ Len(results) = (IF request.top_k < Len(scores)
                               THEN request.top_k ELSE Len(scores))
            /\ \A k \in 1..(Len(results) - 1) :
                  results[k].similarity_score
                      >= results[k + 1].similarity_score
            /\ \A c \in Range(scores) :
                  c.id \notin returned =>
                      \A k \in 1..Len(results) :
                          c.similarity_score <= results[k].similarity_score

\* Three candidates, top_k = 2: the two best are returned, the better one
\* first although it is stored later, and the third is left out.
C12_Witness ==
    /\ SearchAnswered
    /\ request.top_k = 2
    /\ Len(SearchScores) = 3
    /\ Len(response.results) = 2
    /\ response.results[1].id > response.results[2].id
    /\ response.results[1].similarity_score
          > response.results[2].similarity_score

\* C13 as stated: whatever top_k is asked, a search on an available store
\* is answered without error, with top_k clamped to 1..corpus size.
C13_TopKClamped ==
    (pc = "answered" /\ request.endpoint = "search"
        /\ response # StorageDown) =>
        /\ response.status = 200
        /\ LET n == Len(SearchScores)
               clamped == IF request.top_k < 1 THEN 1
                          ELSE IF request.top_k > n THEN n
                          ELSE request.top_k
           IN  response.results_count = (IF n = 0 THEN 0 ELSE clamped)

\* C13, amended: a top_k within 1..100 gives the best top_k candidates, all
\* of them when top_k exceeds their number, and no error; a top_k outside
\* 1..100 is not clamped but rejected with a validation error (422) and no
\* result.
C13_TopKHandling ==
    (pc = "answered" /\ request.endpoint = "search") =>
        IF TopKValid(request.top_k)
        THEN \/ response = StorageDown
             \/ /\ response.status = 200
                /\ response.results_count = Len(response.results)
                /\ response.results_count
                      = (IF request.top_k < Len(SearchScores)
                         THEN request.top_k ELSE Len(SearchScores))
        ELSE response = [status |-> 422]

\* A search with top_k above the number of candidates has returned all of
\* them.
C13_Witness ==
    /\ SearchAnswered
    /\ request.top_k > Len(SearchScores)
    /\ Len(SearchScores) >= 2
    /\ response.results_count = Len(SearchScores)

\* C14: two returned items of equal score appear in the order in which the
\* ranker was given them (the stored order).
C14_StableTieBreak ==
    SearchAnswered =>
        \A k \in 1..Len(response.results) :
            \A l \in (k + 1)..Len(response.results) :
                response.results[k].similarity_score
                    = response.results[l].similarity_score
                    => response.results[k].id < response.results[l].id

\* A result holds two items of equal score below an item stored after them.
C14_Witness ==
    /\ SearchAnswered
    /\ Len(response.results) = 3
    /\ response.results[2].similarity_score
          = response.results[3].similarity_score
    /\ response.results[1].similarity_score
          > response.results[2].similarity_score
    /\ response.results[1].id > response.results[3].id

\* C15: a search on an available store without any non-duplicate article
\* answers 200 with an empty result list and results_count 0.
C15_EmptyCorpus ==
    (pc = "answered" /\ request.endpoint = "search"
        /\ TopKValid(request.top_k) /\ response # StorageDown
        /\ Len(SearchScores) = 0) =>
        /\ response.status = 200
        /\ response.results = <<>>
        /\ response.results_count = 0

\* A search of the empty store has answered.
C15_Witness ==
    /\ SearchAnswered
    /\ db.articles = <<>>
    /\ response.results_count = 0


\* detect_duplicate_articles has returned.
DetectReturned ==
    pc = "returned" /\ request.function = "detect_duplicate_articles"

\* C16: detect_duplicate_articles(a, b, t) returns the similarity of a and b
\* and the verdict `similarity >= t` for the t of that call, equality
\* counting as duplicate; a pair it judges duplicate at t it judges
\* duplicate at every lower threshold.
C16_DecisionRule ==
    DetectReturned =>
        LET a == request.article1_embedding
            b == request.article2_embedding
            s == calculate_similarity(a, b)
        IN  /\ response.value.similarity = s
            /\ response.value.is_dup = (s >= request.threshold)
            /\ response.value.is_dup =>
                  \A t2 \in 0..request.threshold :
                      detect_duplicate_articles(a, b, t2).is_dup

\* A pair whose similarity equals the threshold was judged duplicate, while
\* a higher threshold would not judge it so.
C16_Witness ==
    /\ DetectReturned
    /\ response.value.similarity = request.threshold
    /\ request.threshold < 100
    /\ response.value.is_dup
    /\ ~detect_duplicate_articles(request.article1_embedding,
                                  request.article2_embedding, 100).is_dup

IsZeroVector(v) == \A k \in 1..Len(v) : v[k] = 0

\* C17: calculate_similarity returns 0 when either vector is all-zero and
\* when the two vectors differ in length.
C17_DegenerateSimilarity ==
    (pc = "returned" /\ request.function = "calculate_similarity") =>
        ((\/ IsZeroVector(request.embedding1)
          \/ IsZeroVector(request.embedding2)
          \/ Len(request.embedding1) # Len(request.embedding2))
            => response.value = 0)

\* Two non-zero vectors of different length were scored 0.
C17_Witness ==
    /\ pc = "returned"
    /\ request.function = "calculate_similarity"
    /\ Len(request.embedding1) # Len(request.embedding2)
    /\ ~IsZeroVector(request.embedding1)
    /\ ~IsZeroVector(request.embedding2)
    /\ response.value = 0

C19_ArticleImmutable ==
    [][ \A k \in 1..Len(db.articles) :
            /\ Len(db'.articles) >= k
            /\ db'.articles[k] = db.articles[k] ]_vars

\* A search has answered with results after add_article has committed one
\* more article, with entity rows, to the store.
C19_Witness ==
    /\ pc = "answered"
    /\ request.endpoint = "search"
    /\ response.status = 200
    /\ response.results_count >= 1
    /\ Len(db.articles) = MaxArticles
    /\ db.entities # <<>>

\* C20: the scan of an add_article call sees every article committed before
\* the call began: the connection starts from the committed store, and when
\* the scan ends the new article is flagged duplicate if a committed
\* non-duplicate article is within threshold of it.
C20_ReadYourWrites ==
    /\ pc \in {"embed", "scan"} => conn = db
    /\ pc = "insert" =>
          \A row \in Range(db.articles) :
              (/\ ~row.is_duplicate
               /\ calculate_similarity(embedding,
                      deserialize_embedding(row.embedding)) >= 85)
                  => /\ is_duplicate
                     /\ canonical_id \in 1..row.id

\* The scan has matched the article committed last, which is not the first
\* of the store.
C20_Witness ==
    /\ pc = "insert"
    /\ is_duplicate
    /\ Len(db.articles) >= 2
    /\ canonical_id = Len(db.articles)
    /\ ~db.articles[canonical_id].is_duplicate

\* C21: an ingest request whose required text is missing is answered with a
\* validation failure (422) before any embedding or language-model call is
\* issued and before any row is written: the rejected request has made no
\* collaborator call, holds no uncommitted row and no article id, and no
\* stage of the ingestion ever works on a body without text.
C21_ValidationFirst ==
    /\ pc = "rejected" =>
          /\ response = [status |-> 422]
          /\ calls = NoCalls
          /\ conn = db
          /\ article_id = None
    /\ pc \in {"embed", "scan", "insert", "entities", "impacts"} =>
          article.content \in Contents

\* C21 witness: a textless request has been rejected by a service that
\* already stores an article.
C21_Witness ==
    /\ pc = "rejected"
    /\ response.status = 422
    /\ Len(db.articles) > 0

\* C22: every ingest request eventually completes, with a result or with a
\* failure, even when the embedding call never responds.
C22_IngestCompletes == (pc = "embed") ~> (pc \in {"done", "failed"})

\* Article ids are row positions (AUTOINCREMENT from 1, no DELETE), so the
\* referenced row is looked up by position.
Referenced(store, id) ==
    id \in 1..Len(store.articles) /\ store.articles[id].id = id

ReferencesHold(store) ==
    /\ \A k \in 1..Len(store.entities) :
          Referenced(store, store.entities[k].article_id)
    /\ \A k \in 1..Len(store.stock_impacts) :
          Referenced(store, store.stock_impacts[k].article_id)

\* C23: in every committed store state each Entity Mention row and each
\* Stock Impact Mapping row references an Article row that is committed: no
\* referencing row is ever committed ahead of its article.  The same holds
\* inside the open transaction, where the Article row is inserted first.
C23_ReferencedArticleCommitted ==
    /\ ReferencesHold(db)
    /\ conn # db => ReferencesHold(conn)

\* C23 witness: an add_article call has committed an article together with
\* entity rows and stock-impact rows that reference it, after an earlier
\* article.
C23_Witness ==
    /\ pc = "done"
    /\ article_id > 1
    /\ RowsOfArticle(db.entities, article_id) # {}
    /\ RowsOfArticle(db.stock_impacts, article_id) # {}

WrapperReturned == pc = "returned" /\ request.function \in WrapperNames

WrapperDefault ==
    CASE request.function = "extract_entities" -> DefaultEntities
      [] request.function = "map_stock_impact" -> DefaultImpact
      [] request.function = "analyze_sentiment" -> DefaultSentiment

\* The JSON objects of a completion's text, in text order.
ObjectsIn(completion) ==
    IF completion.kind = "raise" THEN <<>>
    ELSE SelectSeq(TextOf(completion), LAMBDA segment : segment.t = "object")

\* C24: a wrapper given a completion that contains a well-formed JSON object
\* with extraneous text around or after it, a second brace-delimited
\* fragment included, returns the first well-formed JSON object of the text;
\* it returns its documented default only when the text contains no
\* well-formed JSON object.
C24_FirstObjectRecovered ==
    WrapperReturned =>
        LET objects == ObjectsIn(request.completion)
        IN  response.value = IF objects # <<>> THEN Head(objects)
                             ELSE WrapperDefault

\* Entities an extraction result lists under the company or sector category.
CompanyOrSectorCount(data) ==
    Len(GetMember(data.items, "companies", <<>>))
        + Len(GetMember(data.items, "sectors", <<>>))

\* C25: within one add_article call the embedding function is called exactly
\* once, entity extraction and sentiment at most once each, and the
\* stock-impact classification exactly once per extracted company or sector
\* entity and never for a regulator, person or event; no call is repeated
\* after it failed.
C25_SingleAttempt ==
    /\ pc = "embed" => calls = NoCalls
    /\ pc \in {"scan", "insert", "entities"} =>
          calls = [NoCalls EXCEPT !.embed = 1]
    /\ pc = "impacts" =>
          /\ calls.embed = 1 /\ calls.entities = 1 /\ calls.sentiment = 0
          /\ calls.impact + Len(todo) = CompanyOrSectorCount(entities_data)
    /\ pc = "done" =>
          /\ calls.embed = 1 /\ calls.entities = 1 /\ calls.sentiment = 1
          /\ calls.impact = CompanyOrSectorCount(response.entities)
    /\ (pc = "failed" /\ response.detail # ConnectError) =>
          /\ calls.embed = 1 /\ calls.entities <= 1 /\ calls.sentiment = 0
          /\ calls.impact <= CompanyOrSectorCount(EntitiesFound)

\* C25 witness: a call has returned for an article with a company, a sector
\* and a regulator: two impact calls, three entity rows.
C25_Witness ==
    /\ pc = "done"
    /\ calls.impact = 2
    /\ Cardinality(RowsOfArticle(db.entities, response.id)) = 3

\* The stages of one add_article call, in the order of the claim; the
\* sentiment call, the commit and the answer make up the step into "done".
StageRank(stage) ==
    CASE stage = "embed"    -> 1
      [] stage = "scan"     -> 2
      [] stage = "insert"   -> 3
      [] stage = "entities" -> 4
      [] stage = "impacts"  -> 5
      [] stage = "done"     -> 6

Stages == {"embed", "scan", "insert", "entities", "impacts"}

\* C26: within one add_article call the stages occur in the order embed,
\* duplicate scan, Article insert, entity extraction and inserts, stock-impact
\* calls and inserts, sentiment scoring, completion.  A call starts at the
\* embedding; every step of a call in flight moves to a later stage, stays in
\* the impact loop with one entity less to do, or fails; each collaborator is
\* called in its own stage only, the sentiment call in the step that
\* completes the call.
C26_StageOrder ==
    [][ /\ pc \in Quiescent => pc' \notin (Stages \cup {"done"}) \ {"embed"}
        /\ pc \in Stages =>
              \/ pc' = "failed"
              \/ pc' = "impacts" /\ pc = "impacts" /\ Len(todo') < Len(todo)
              \/ /\ pc' \in Stages \cup {"done"}
                 /\ StageRank(pc') = StageRank(pc) + 1
        /\ pc \in Stages =>
              /\ calls'.embed # calls.embed => pc = "embed"
              /\ calls'.entities # calls.entities => pc = "entities"
              /\ calls'.impact # calls.impact => pc = "impacts" /\ todo # <<>>
              /\ calls'.sentiment # calls.sentiment =>
                    pc = "impacts" /\ todo = <<>> /\ pc' = "done"
      ]_vars

\* C26 witness: a call has gone through every stage, the impact loop twice.
C26_Witness ==
    /\ pc = "done"
    /\ calls = [embed |-> 1, entities |-> 1, impact |-> 2, sentiment |-> 1]
    /\ Len(db.articles) = 2

NonDuplicates(store) == {row \in Range(store.articles) : ~row.is_duplicate}

PairwiseDistinct(store) ==
    \A a \in NonDuplicates(store), b \in NonDuplicates(store) :
        a.id # b.id =>
            calculate_similarity(deserialize_embedding(a.embedding),
                                 deserialize_embedding(b.embedding)) < 85

UrlsUnique(store) ==
    \A a \in Range(store.articles), b \in Range(store.articles) :
        (a.url # NULL /\ a.url = b.url) => a.id = b.id

\* C28: a step in which add_article fails (HTTP 500) leaves the committed
\* store as it was and drops what the request had written; the committed
\* store changes only in the step in which a request returns 200; and no two
\* committed articles share a non-null url.
C28_FailedIngestNoTrace ==
    [][ /\ pc' = "failed" => db' = db /\ conn' = db
        /\ db' # db => pc' = "done" /\ response'.status = 200
        /\ UrlsUnique(db') ]_vars

\* C28 witness: a request has failed on the url of a stored article, after
\* its embedding and its scan.
C28_Witness ==
    /\ pc = "failed"
    /\ response.detail = UrlNotUnique
    /\ calls.embed = 1
    /\ \E row \in Range(db.articles) : row.url # NULL

StoredZero(row) == IsZeroVector(deserialize_embedding(row.embedding))

ZeroVectorsApart(store) ==
    \A k \in 1..Len(store.articles) :
        LET row == store.articles[k]
        IN  /\ StoredZero(row) => ~row.is_duplicate /\ row.canonical_id = None
            /\ row.canonical_id # None =>
                  ~StoredZero(store.articles[row.canonical_id])

\* C29: an article stored with the all-zero fallback vector is stored as
\* non-duplicate, and no later article, zero-vector or not, is flagged as a
\* duplicate of it: in the committed store, in the open transaction, and in
\* the verdict of a scan that has just ended.
C29_ZeroVectorNeverDuplicate ==
    /\ ZeroVectorsApart(db)
    /\ conn # db => ZeroVectorsApart(conn)
    /\ (pc \in {"insert", "load_insert"} /\ IsZeroVector(embedding)) =>
          ~is_duplicate /\ canonical_id = None

\* C29 witness: the store holds two zero-vector articles and, after them, a
\* proper article whose scan went over both.
C29_Witness ==
    /\ Len(db.articles) = 3
    /\ StoredZero(db.articles[1])
    /\ StoredZero(db.articles[2])
    /\ ~StoredZero(db.articles[3])
    /\ pc = "done"

\* The vectors and the verdicts of the articles of a store, in id order.
VectorsOf(store) ==
    [k \in 1..Len(store.articles) |->
        deserialize_embedding(store.articles[k].embedding)]

Verdicts(store) ==
    [k \in 1..Len(store.articles) |->
        << store.articles[k].is_duplicate, store.articles[k].canonical_id >>]

MockUrls == {MOCK_ARTICLES[k].url : k \in 1..Len(MOCK_ARTICLES)}

\* The verdict add_article's scan gives the k-th article of a store when the
\* articles before it are the stored ones.
AddArticleVerdict(store, k) ==
    LET before == [store EXCEPT !.articles = SubSeq(@, 1, k - 1)]
        r == DuplicateScan(SelectNonDuplicates(before), VectorsOf(store)[k])
    IN  << r.is_duplicate, r.canonical_id >>

====
